---- MODULE Spec2Model ----
(***************************************************************************)
(* Session/transport multiplexer of the remote MCP server                  *)
(* (MCPServerWrapper and its express routes).                              *)
(*                                                                         *)
(* Every handler is an async function.  It runs synchronously up to its    *)
(* next `await`, where it yields and any other handler may run.  One       *)
(* action of the model is one such synchronous segment.  A request whose   *)
(* handler reaches an await is parked in the bag `req`; a request whose    *)
(* handler returns without awaiting is answered within the action that     *)
(* receives it.  `resp` holds a completed response until the client has    *)
(* taken it.                                                               *)
(*                                                                         *)
(* The MCP SDK (Server, StreamableHTTPServerTransport, SSEServerTransport) *)
(* is not part of the repository: each call into it is a nondeterministic  *)
(* choice between succeeding and throwing.                                 *)
(***************************************************************************)
EXTENDS Integers, Sequences, FiniteSets, Bags, TLC

\* ---------------------------------------------------------------- bounds
MaxObj == 2        \* transport/server pairs constructed over a run
MaxReq == 2        \* handlers suspended at an await at the same time

\* ------------------------------------------------------------- constants
NoId == 0          \* header / query parameter absent: undefined
NoStatus == 0      \* no response is ever written for the request
Handed == -3       \* the request is with the transport, response to come
Undefined == 0     \* a map lookup that finds nothing
Inherited == -1    \* a map lookup answered by Object.prototype
ProtoKey == -2     \* a key every plain object inherits, e.g. "constructor"

Obj == 1..MaxObj
\* randomUUID() never repeats: the k-th transport gets the k-th id.
Ids == 1..MaxObj
Sids == Ids \cup {NoId, ProtoKey}

\* ------------------------------------------------------- JSON-RPC bodies
\* An element of a batch is named by the method of the object it is;
\* "null" is a null element and "num" a number.  name is params.name (or
\* params.uri) of a single request, "" when it has none; args is
\* params.arguments.message: << >> when absent, <<m>> for the string m.
UndefBody ==
  [t |-> "undef", method |-> "", elems |-> << >>, name |-> "",
   args |-> << >>]
ObjBody(m) ==
  [t |-> "obj", method |-> m, elems |-> << >>, name |-> "", args |-> << >>]
ArrBody(es) ==
  [t |-> "arr", method |-> "", elems |-> es, name |-> "", args |-> << >>]
CallBody(m, n) ==
  [t |-> "obj", method |-> m, elems |-> << >>, name |-> n, args |-> << >>]
EchoCall(args) ==
  [t |-> "obj", method |-> "tools/call", elems |-> << >>, name |-> "echo",
   args |-> args]

\* Bodies the clients of the model send.
Bodies ==
  { ObjBody("initialize"), ObjBody("tools/call"),
    ArrBody(<<"tools/call", "initialize">>), ArrBody(<<"null">>) }
MsgBodies == { ObjBody("initialize"), ObjBody("tools/call") }

\* req.method of one batch element: "throw" for null (TypeError).
ElemMethod(e) ==
  IF e = "null" THEN "throw" ELSE IF e = "num" THEN "" ELSE e

\* body.some(req => req.method === 'initialize'), left to right.
RECURSIVE SomeInitialize(_)
SomeInitialize(es) ==
  IF es = << >> THEN "false"
  ELSE IF ElemMethod(Head(es)) = "throw" THEN "throw"
  ELSE IF ElemMethod(Head(es)) = "initialize" THEN "true"
  ELSE SomeInitialize(Tail(es))

isInitializeRequest(body) ==
  IF body.t = "undef" THEN "false"
  ELSE IF body.method = "initialize" THEN "true"
  ELSE IF body.t = "arr" THEN SomeInitialize(body.elems)
  ELSE "false"

\* ------------------------------------------------------------ the state
VARIABLES
  transports,     \* MCPServerWrapper.transports: id -> transport or Undefined
  servers,        \* MCPServerWrapper.servers
  sseTransports,  \* MCPServerWrapper.sseTransports
  sseServers,     \* MCPServerWrapper.sseServers
  kind,           \* object -> "none" (not constructed) | "modern" | "legacy"
  sessionId,      \* object -> transport.sessionId (Undefined until assigned)
  closeCalls,     \* object -> server.close() invocations: 0, 1, Repeated
  conn,           \* legacy object -> state of its /sse response stream
  listener,       \* legacy object -> res.on('close') listener attached
  cleanupPc,      \* legacy object -> position of the close callback
  req,            \* bag of handlers suspended at an await
  resp,           \* the response completed and not yet taken
  announced,      \* ids that have been written to a client
  got204          \* ids for which a DELETE has been answered 204

vars == << transports, servers, sseTransports, sseServers, kind, sessionId,
           closeCalls, conn, listener, cleanupPc, req, resp, announced,
           got204 >>

maps == << transports, servers, sseTransports, sseServers >>
objs == << kind, sessionId, closeCalls, conn, listener, cleanupPc >>

\* A handler suspended at an await: where, on which route, and the
\* transport/server pair it holds.
Pending(pc, route, o) == [pc |-> pc, route |-> route, obj |-> o]

Suspend(rec) == req' = req (+) SetToBag({rec})
Resume(rec) == req' = req (-) SetToBag({rec})
Move(rec, pc) ==
  req' = (req (-) SetToBag({rec})) (+) SetToBag({[rec EXCEPT !.pc = pc]})
At(rec, pc) == BagIn(rec, req) /\ rec.pc = pc

NoResp == [route |-> "none", sid |-> NoId, body |-> UndefBody,
           status |-> NoStatus, fwd |-> 0, stored |-> 0, arrival |-> FALSE,
           phase |-> "unknown", writes |-> 0, caught |-> FALSE,
           rpc |-> "none", content |-> << >>]

\* this.transports[sessionId] on a plain object: own keys, then the
\* prototype chain.
MapGet(map, sid) ==
  IF sid \in Ids THEN map[sid]
  ELSE IF sid = ProtoKey THEN Inherited
  ELSE Undefined

Truthy(v) == v # Undefined /\ v # NoId

\* Termination of the session named sid has begun: a cleanup has called
\* close() on its server.
TermBegun(sid) ==
  \E o \in Obj : sessionId[o] = sid /\ sid # NoId /\ closeCalls[o] > 0

\* What has happened to the id a request carries, at the time it arrives.
Phase(sid) ==
  IF sid \in got204 THEN "deleted"
  ELSE IF TermBegun(sid) THEN "closing"
  ELSE IF sid \in announced THEN "known"
  ELSE "unknown"

\* server.close() is called once more.  The count is kept as 0, 1 or
\* Repeated (more than once).
Repeated == 2
Called(n) == IF n < Repeated THEN n + 1 ELSE Repeated

\* The ids a client sends: none, an inherited key, an id it has been
\* given, or an id that names nothing (one stands for all of them).
ClientSids ==
  {NoId, ProtoKey} \cup announced
    \cup {i \in Ids : i \notin announced
                       /\ \A j \in Ids : j < i => j \in announced}

\* The next transport to be constructed.
FreeObj(o) == kind[o] = "none" /\ \A p \in Obj : p < o => kind[p] # "none"

\* A request can be taken: the last response is out and, where the handler
\* is going to suspend, fewer than MaxReq handlers are suspended.
Ready == resp.route = "none"
FreeSlot == Ready /\ BagCardinality(req) < MaxReq

\* How many times the response of a request has been started when it has
\* the given status: not at all while it is with the transport or when it
\* is left unanswered, once otherwise.
Started(status) == IF status \in {NoStatus, Handed} THEN 0 ELSE 1

\* What the segment that receives a request does with it: answers it, or
\* hands it to a transport (status Handed).  fwd is the transport the
\* request was handed to, stored the id the handler registered, phase what
\* had happened to the request's id when it arrived, writes the number of
\* times its response has been started, caught whether a catch block or
\* .catch callback of the wrapper has run for it (every 500 is written by
\* a catch block), rpc the JSON-RPC reply a request handler of the server
\* produced for it ("none" where the dispatch is not followed), content
\* the texts of the content items of a tool's result.
Respond(route, sid, body, status, fwd, stored, phase) ==
  resp' = [route |-> route, sid |-> sid, body |-> body, status |-> status,
           fwd |-> fwd, stored |-> stored, arrival |-> TRUE, phase |-> phase,
           writes |-> Started(status), caught |-> status = 500,
           rpc |-> "none", content |-> << >>]

\* What a resumed handler answers.
Complete(route, sid, body, status, fwd, stored) ==
  resp' = [route |-> route, sid |-> sid, body |-> body, status |-> status,
           fwd |-> fwd, stored |-> stored, arrival |-> FALSE,
           phase |-> "unknown", writes |-> Started(status),
           caught |-> status = 500, rpc |-> "none", content |-> << >>]

\* The catch of a handler that writes its 500 whether or not the response
\* has been started.
CatchWritesUnchecked(headersSent) == 1

\* catch (error) { if (!res.headersSent) res.status(500).json(...) }: the
\* number of responses the catch starts.
CatchWrites(headersSent) == IF headersSent THEN 0 ELSE 1

\* The transport had started the response (status) when it threw: the
\* handler's catch runs with res.headersSent true.
ThrownLate(route, sid, body, status, fwd, arrival, phase) ==
  resp' = [route |-> route, sid |-> sid, body |-> body, status |-> status,
           fwd |-> fwd, stored |-> 0, arrival |-> arrival, phase |-> phase,
           writes |-> 1 + CatchWrites(TRUE), caught |-> TRUE,
           rpc |-> "none", content |-> << >>]

Init ==
  /\ transports = [i \in Ids |-> Undefined]
  /\ servers = [i \in Ids |-> Undefined]
  /\ sseTransports = [i \in Ids |-> Undefined]
  /\ sseServers = [i \in Ids |-> Undefined]
  /\ kind = [o \in Obj |-> "none"]
  /\ sessionId = [o \in Obj |-> Undefined]
  /\ closeCalls = [o \in Obj |-> 0]
  /\ conn = [o \in Obj |-> "none"]
  /\ listener = [o \in Obj |-> FALSE]
  /\ cleanupPc = [o \in Obj |-> "idle"]
  /\ req = EmptyBag
  /\ resp = NoResp
  /\ announced = {}
  /\ got204 = {}

\* The client takes the completed response.  (Route "EXIT" marks
\* process.exit: nothing runs after it.)
ResponseTaken ==
  /\ ~Ready /\ resp.route # "EXIT"
  /\ resp' = NoResp
  /\ UNCHANGED << maps, objs, req, announced, got204 >>

\* ------------------------------------------------- POST /mcp (modern)
\* The check of the session id on the initialize branch left out.
UnexpectedSessionIdUnchecked(sid) == FALSE

\* if (sessionId) on the initialize branch.
UnexpectedSessionId(sid) == Truthy(sid)

\* if (!sessionId) on the non-initialize branch.
MissingSessionId(sid) == ~Truthy(sid)

\* isInitializeRequest throws inside the try block: the catch answers 500.
PostClassifyThrows(sid, body) ==
  /\ Ready
  /\ isInitializeRequest(body) = "throw"
  /\ Respond("POST", sid, body, 500, 0, 0, Phase(sid))
  /\ UNCHANGED << maps, objs, req, announced, got204 >>

\* An initialize carrying a session id answered 400 after dropping the
\* session it names.
PostInitRejectedDropping(sid, body) ==
  /\ Ready
  /\ isInitializeRequest(body) = "true"
  /\ UnexpectedSessionId(sid)
  /\ Respond("POST", sid, body, 400, 0, 0, Phase(sid))
  /\ transports' = [i \in Ids |-> IF i = sid THEN Undefined
                                 ELSE transports[i]]
  /\ UNCHANGED << servers, sseTransports, sseServers, objs, req, announced,
                  got204 >>

\* Initialize carrying a session id: 400 and return.
PostInitRejected(sid, body) ==
  /\ Ready
  /\ isInitializeRequest(body) = "true"
  /\ UnexpectedSessionId(sid)
  /\ Respond("POST", sid, body, 400, 0, 0, Phase(sid))
  /\ UNCHANGED << maps, objs, req, announced, got204 >>

\* Initialize without a session id: construct transport and server and
\* suspend at `await server.connect(transport)`.
PostInitBegin(o, sid, body) ==
  /\ FreeSlot /\ FreeObj(o)
  /\ isInitializeRequest(body) = "true"
  /\ ~UnexpectedSessionId(sid)
  /\ kind' = [kind EXCEPT ![o] = "modern"]
  /\ Suspend(Pending("init_connect", "POST", o))
  /\ Respond("POST", sid, body, Handed, o, 0, Phase(sid))
  /\ UNCHANGED << maps, sessionId, closeCalls, conn, listener, cleanupPc,
                  announced, got204 >>

\* server.connect resolved; transport.handleRequest runs the initialize
\* exchange: it assigns transport.sessionId and starts the response that
\* carries the Mcp-Session-Id header.  The handler suspends at
\* `await transport.handleRequest(req, res, requestBody)`.
PostInitHandle(rec) ==
  /\ Ready /\ At(rec, "init_connect")
  /\ sessionId' = [sessionId EXCEPT ![rec.obj] = rec.obj]
  /\ announced' = announced \cup {rec.obj}
  /\ Move(rec, "init_handle")
  /\ UNCHANGED << maps, kind, closeCalls, conn, listener, cleanupPc, resp,
                  got204 >>

\* The transport answered the request itself without creating a session
\* (it rejected the payload): transport.sessionId stays undefined.
PostInitNoSession(rec) ==
  /\ Ready /\ At(rec, "init_connect")
  /\ Move(rec, "init_handle")
  /\ UNCHANGED << maps, objs, resp, announced, got204 >>

\* server.connect or transport.handleRequest threw before the response
\* was started: the catch answers 500.  The transport is garbage.
PostInitThrows(rec) ==
  /\ Ready /\ At(rec, "init_connect")
  /\ Complete("POST", NoId, ObjBody("initialize"), 500, 0, 0)
  /\ kind' = [kind EXCEPT ![rec.obj] = "none"]
  /\ Resume(rec)
  /\ UNCHANGED << maps, sessionId, closeCalls, conn, listener, cleanupPc,
                  announced, got204 >>

\* The store without the test of transport.sessionId: a transport that
\* ended without an id is stored all the same.
StoreSessionUntested(o) ==
  /\ transports' = [transports EXCEPT ![o] = o]
  /\ servers' = [servers EXCEPT ![o] = o]
  /\ kind' = IF Truthy(sessionId[o]) THEN kind
             ELSE [kind EXCEPT ![o] = "none"]

\* if (transport.sessionId) { this.transports[..] = transport; ... }
StoreSession(o) ==
  IF Truthy(sessionId[o])
  THEN /\ transports' = [transports EXCEPT ![sessionId[o]] = o]
       /\ servers' = [servers EXCEPT ![sessionId[o]] = o]
       /\ kind' = kind
  ELSE /\ UNCHANGED << transports, servers >>
       /\ kind' = [kind EXCEPT ![o] = "none"]

\* transport.handleRequest resolved: store the session if the transport
\* has an id (without one the transport is garbage).
PostInitStore(rec) ==
  /\ Ready /\ At(rec, "init_handle")
  /\ StoreSession(rec.obj)
  /\ Complete("POST", NoId, ObjBody("initialize"),
              IF Truthy(sessionId[rec.obj]) THEN 200 ELSE 400,
              rec.obj, sessionId[rec.obj])
  /\ Resume(rec)
  /\ UNCHANGED << sseTransports, sseServers, sessionId, closeCalls, conn,
                  listener, cleanupPc, announced, got204 >>

\* Non-initialize without a session id: 400 and return.
PostMissingId(sid, body) ==
  /\ Ready
  /\ isInitializeRequest(body) = "false"
  /\ MissingSessionId(sid)
  /\ Respond("POST", sid, body, 400, 0, 0, Phase(sid))
  /\ UNCHANGED << maps, objs, req, announced, got204 >>

\* const transport = this.transports[sessionId]; if (!transport) 404.
PostNotFound(sid, body) ==
  /\ Ready
  /\ isInitializeRequest(body) = "false"
  /\ ~MissingSessionId(sid)
  /\ ~Truthy(MapGet(transports, sid))
  /\ Respond("POST", sid, body, 404, 0, 0, Phase(sid))
  /\ UNCHANGED << maps, objs, req, announced, got204 >>

\* The lookup is answered by Object.prototype: transport.handleRequest is
\* not a function, the TypeError is caught and answered 500.
PostInherited(sid, body) ==
  /\ Ready
  /\ isInitializeRequest(body) = "false"
  /\ ~MissingSessionId(sid)
  /\ MapGet(transports, sid) = Inherited
  /\ Respond("POST", sid, body, 500, 0, 0, Phase(sid))
  /\ UNCHANGED << maps, objs, req, announced, got204 >>

\* The request forwarded to a transport that is not looked up by the id
\* the request carries: any registered one.
PostForwardShared(sid, body) ==
  /\ FreeSlot
  /\ isInitializeRequest(body) = "false"
  /\ ~MissingSessionId(sid)
  /\ MapGet(transports, sid) \in Obj
  /\ \E i \in Ids :
       /\ transports[i] \in Obj
       /\ Suspend(Pending("post_fwd", "POST", transports[i]))
       /\ Respond("POST", sid, body, Handed, transports[i], 0, Phase(sid))
  /\ UNCHANGED << maps, objs, announced, got204 >>

\* Forward to the session's transport and suspend at
\* `await transport.handleRequest(req, res, requestBody)`.
PostForward(sid, body) ==
  /\ FreeSlot
  /\ isInitializeRequest(body) = "false"
  /\ ~MissingSessionId(sid)
  /\ MapGet(transports, sid) \in Obj
  /\ Suspend(Pending("post_fwd", "POST", MapGet(transports, sid)))
  /\ Respond("POST", sid, body, Handed, MapGet(transports, sid), 0,
             Phase(sid))
  /\ UNCHANGED << maps, objs, announced, got204 >>

\* The forwarded call resolved (200) or threw before the response was
\* started (500).
PostForwarded(rec, status) ==
  /\ Ready /\ At(rec, "post_fwd")
  /\ Complete("POST", sessionId[rec.obj], ObjBody("tools/call"), status,
              rec.obj, 0)
  /\ Resume(rec)
  /\ UNCHANGED << maps, objs, announced, got204 >>

\* The forwarded call threw after the transport had started the response:
\* the catch finds res.headersSent true.
PostForwardedThrowsLate(rec) ==
  /\ Ready /\ At(rec, "post_fwd")
  /\ ThrownLate("POST", sessionId[rec.obj], ObjBody("tools/call"), 200,
                rec.obj, FALSE, "unknown")
  /\ Resume(rec)
  /\ UNCHANGED << maps, objs, announced, got204 >>

\* transport.handleRequest threw on the initialize after it had assigned
\* the session id and started the response: the store is skipped and the
\* catch finds res.headersSent true.
PostInitThrowsLate(rec) ==
  /\ Ready /\ At(rec, "init_handle")
  /\ Truthy(sessionId[rec.obj])
  /\ ThrownLate("POST", NoId, ObjBody("initialize"), 200, rec.obj, FALSE,
                "unknown")
  /\ Resume(rec)
  /\ UNCHANGED << maps, objs, announced, got204 >>

handlePostRequest ==
  \/ \E sid \in ClientSids, body \in Bodies :
       \/ PostClassifyThrows(sid, body)
       \/ PostInitRejected(sid, body)
       \/ PostMissingId(sid, body)
       \/ PostNotFound(sid, body)
       \/ PostInherited(sid, body)
       \/ PostForward(sid, body)
       \/ \E o \in Obj : PostInitBegin(o, sid, body)
  \/ \E rec \in BagToSet(req) :
       \/ PostInitHandle(rec)
       \/ PostInitNoSession(rec)
       \/ PostInitThrows(rec)
       \/ PostInitStore(rec)
       \/ PostInitThrowsLate(rec)
       \/ PostForwardedThrowsLate(rec)
       \/ \E status \in {200, 500} : PostForwarded(rec, status)

\* ------------------------------------------------------ GET /mcp (modern)
\* if (!sessionId || !this.transports[sessionId]) 400.
GetBadRequest(sid) ==
  /\ Ready
  /\ ~Truthy(sid) \/ ~Truthy(MapGet(transports, sid))
  /\ Respond("GET", sid, UndefBody, 400, 0, 0, Phase(sid))
  /\ UNCHANGED << maps, objs, req, announced, got204 >>

\* The lookup is answered by Object.prototype: the TypeError is not caught
\* (handleGetRequest has no try block) and the request gets no response.
GetInherited(sid) ==
  /\ Ready
  /\ Truthy(sid)
  /\ MapGet(transports, sid) = Inherited
  /\ Respond("GET", sid, UndefBody, NoStatus, 0, 0, Phase(sid))
  /\ UNCHANGED << maps, objs, req, announced, got204 >>

\* `await transport.handleRequest(req, res)`: the transport opens the push
\* channel (200), or throws: the rejection is unhandled and no response is
\* written.  Nothing follows the await, so call and return are one step.
GetForward(sid, status) ==
  /\ Ready
  /\ Truthy(sid)
  /\ MapGet(transports, sid) \in Obj
  /\ Respond("GET", sid, UndefBody, status, MapGet(transports, sid), 0,
             Phase(sid))
  /\ UNCHANGED << maps, objs, req, announced, got204 >>

handleGetRequest ==
  \E sid \in ClientSids :
    \/ GetBadRequest(sid)
    \/ GetInherited(sid)
    \/ \E status \in {200, NoStatus} : GetForward(sid, status)

\* ------------------------------------- DELETE /mcp and /mcp/:sessionId
\* route "DELETE" is the header form, "DELETEP" the path form.  Both
\* continue alike after `await mcpServer.cleanupSession(sessionId)`
\* (cleaned ? 204 : 404), so a suspended request of either form is the
\* same record and its answer is reported under "DELETE".
DeleteRoutes == {"DELETE", "DELETEP"}

\* app.delete(endpoint): if (!sessionId) 400.  The path form has no check.
DeleteMissingId(route, sid) == route = "DELETE" /\ ~Truthy(sid)

\* cleanupSession: if (this.transports[sessionId]).
CleanupFound(sid) == Truthy(MapGet(transports, sid))

\* DELETE /mcp without the header.
DeleteNoHeader(sid) ==
  /\ Ready
  /\ DeleteMissingId("DELETE", sid)
  /\ Respond("DELETE", sid, UndefBody, 400, 0, 0, Phase(sid))
  /\ UNCHANGED << maps, objs, req, announced, got204 >>

\* cleanupSession returns false: 404.
DeleteNotFound(route, sid) ==
  /\ Ready
  /\ ~DeleteMissingId(route, sid)
  /\ ~CleanupFound(sid)
  /\ Respond(route, sid, UndefBody, 404, 0, 0, Phase(sid))
  /\ UNCHANGED << maps, objs, req, announced, got204 >>

\* Both lookups are answered by Object.prototype: server.close is not a
\* function, cleanupSession rejects, the route handler has no try block
\* and the request gets no response.
DeleteInherited(route, sid) ==
  /\ Ready
  /\ ~DeleteMissingId(route, sid)
  /\ CleanupFound(sid)
  /\ MapGet(servers, sid) = Inherited
  /\ Respond(route, sid, UndefBody, NoStatus, 0, 0, Phase(sid))
  /\ UNCHANGED << maps, objs, req, announced, got204 >>

\* cleanupSession found the session: call server.close() and suspend at
\* the await.  (With no server stored the delete runs at once.)
DeleteBegin(route, sid) ==
  /\ ~DeleteMissingId(route, sid)
  /\ CleanupFound(sid)
  /\ MapGet(transports, sid) \in Obj
  /\ IF MapGet(servers, sid) \in Obj
     THEN /\ FreeSlot
          /\ closeCalls' = [closeCalls EXCEPT
                              ![MapGet(servers, sid)] = Called(@)]
          /\ Suspend(Pending("del_close", "DELETE", MapGet(servers, sid)))
          /\ UNCHANGED << maps, resp, got204 >>
     ELSE /\ Ready
          /\ transports' = [transports EXCEPT ![sid] = Undefined]
          /\ Respond(route, sid, UndefBody, 204, 0, 0, Phase(sid))
          /\ got204' = got204 \cup {sid}
          /\ UNCHANGED << servers, sseTransports, sseServers, closeCalls,
                          req >>
  /\ UNCHANGED << kind, sessionId, conn, listener, cleanupPc, announced >>

\* What `await server.close()` would yield with no handler attached: the
\* outcome of close() itself.
CloseUncaught(outcome) == outcome

\* `await server.close().catch((error) => { log(...) })`: the promise that
\* is awaited resolves whether close() resolved or rejected.
CloseCaught(outcome) == "resolved"

\* A path-form DELETE that removes the transport entry only.
DeleteResumedPathKeepsServer(rec, outcome) ==
  /\ Ready /\ At(rec, "del_close")
  /\ servers' = IF rec.route = "DELETEP" THEN servers
                ELSE [servers EXCEPT ![sessionId[rec.obj]] = Undefined]
  /\ transports' = [transports EXCEPT ![sessionId[rec.obj]] = Undefined]
  /\ Complete(rec.route, sessionId[rec.obj], UndefBody, 204, rec.obj, 0)
  /\ got204' = got204 \cup {sessionId[rec.obj]}
  /\ Resume(rec)
  /\ UNCHANGED << sseTransports, sseServers, objs, announced >>

\* server.close() settled.  cleanupSession goes on past the await: delete
\* both entries, return true, and the route answers 204.  (A rejected
\* await would reject cleanupSession and the route handler, which has no
\* try block.)  caught records that the .catch callback has run.
DeleteResumed(rec, outcome) ==
  /\ Ready /\ At(rec, "del_close")
  /\ IF CloseCaught(outcome) = "resolved"
     THEN /\ servers' = [servers EXCEPT ![sessionId[rec.obj]] = Undefined]
          /\ transports' =
               [transports EXCEPT ![sessionId[rec.obj]] = Undefined]
          /\ resp' = [route |-> rec.route, sid |-> sessionId[rec.obj],
                      body |-> UndefBody, status |-> 204, fwd |-> rec.obj,
                      stored |-> 0, arrival |-> FALSE, phase |-> "unknown",
                      writes |-> Started(204),
                      caught |-> outcome = "rejected", rpc |-> "none",
                      content |-> << >>]
          /\ got204' = got204 \cup {sessionId[rec.obj]}
     ELSE /\ Complete(rec.route, sessionId[rec.obj], UndefBody, NoStatus,
                      rec.obj, 0)
          /\ UNCHANGED << servers, transports, got204 >>
  /\ Resume(rec)
  /\ UNCHANGED << sseTransports, sseServers, objs, announced >>

deleteRoutes ==
  \/ \E sid \in ClientSids :
       \/ DeleteNoHeader(sid)
       \/ \E route \in DeleteRoutes :
            \/ DeleteNotFound(route, sid)
            \/ DeleteInherited(route, sid)
            \/ DeleteBegin(route, sid)
  \/ \E rec \in BagToSet(req) :
       \E outcome \in {"resolved", "rejected"} : DeleteResumed(rec, outcome)

\* ------------------------------------------------------ GET /sse (legacy)
\* new SSEServerTransport assigns the session id; server.connect starts the
\* transport, which opens the stream and emits the endpoint event carrying
\* the id.  The handler suspends at `await server.connect(transport)`.
LegacySSEBegin(o) ==
  /\ FreeSlot /\ FreeObj(o)
  /\ kind' = [kind EXCEPT ![o] = "legacy"]
  /\ sessionId' = [sessionId EXCEPT ![o] = o]
  /\ conn' = [conn EXCEPT ![o] = "open"]
  /\ announced' = announced \cup {o}
  /\ Suspend(Pending("sse_connect", "SSE", o))
  /\ UNCHANGED << maps, closeCalls, listener, cleanupPc, resp, got204 >>

\* server.connect threw before anything was written: the catch answers
\* 500.  The transport is garbage.
LegacySSEThrows ==
  /\ Ready
  /\ \E o \in Obj : FreeObj(o)
  /\ Respond("SSE", NoId, UndefBody, 500, 0, 0, "unknown")
  /\ UNCHANGED << maps, objs, req, announced, got204 >>

\* server.connect threw after the transport had opened the stream: the
\* store and the listener are skipped and the catch finds res.headersSent
\* true.
LegacySSEThrowsLate(rec) ==
  /\ Ready /\ At(rec, "sse_connect")
  /\ ThrownLate("SSE", NoId, UndefBody, 200, rec.obj, FALSE, "unknown")
  /\ Resume(rec)
  /\ UNCHANGED << maps, objs, announced, got204 >>

\* server.connect resolved: store the session and attach the close
\* listener.  The stream stays open.
LegacySSEStore(rec) ==
  /\ Ready /\ At(rec, "sse_connect")
  /\ LET o == rec.obj IN
       /\ sseTransports' = [sseTransports EXCEPT ![sessionId[o]] = o]
       /\ sseServers' = [sseServers EXCEPT ![sessionId[o]] = o]
       /\ listener' = [listener EXCEPT ![o] = TRUE]
       /\ Complete("SSE", NoId, UndefBody, 200, o, sessionId[o])
  /\ Resume(rec)
  /\ UNCHANGED << transports, servers, kind, sessionId, closeCalls, conn,
                  cleanupPc, announced, got204 >>

\* cleanupSSESession: if (this.sseTransports[sessionId]).
SSECleanupFound(sid) == Truthy(MapGet(sseTransports, sid))

\* The stream closes before the listener is attached: the event is lost.
StreamCloseEarly(o) ==
  /\ Ready
  /\ conn[o] = "open" /\ ~listener[o]
  /\ conn' = [conn EXCEPT ![o] = "closed"]
  /\ UNCHANGED << maps, kind, sessionId, closeCalls, listener, cleanupPc,
                  req, resp, announced, got204 >>

\* The stream closes: the listener calls cleanupSSESession, which calls
\* server.close() and suspends at the await.
StreamClose(o) ==
  /\ Ready
  /\ conn[o] = "open" /\ listener[o]
  /\ conn' = [conn EXCEPT ![o] = "closed"]
  /\ IF SSECleanupFound(sessionId[o])
        /\ MapGet(sseServers, sessionId[o]) \in Obj
     THEN /\ closeCalls' = [closeCalls EXCEPT
                              ![MapGet(sseServers, sessionId[o])] =
                                  Called(@)]
          /\ cleanupPc' = [cleanupPc EXCEPT ![o] = "closing"]
     ELSE UNCHANGED << closeCalls, cleanupPc >>
  /\ UNCHANGED << maps, kind, sessionId, listener, req, resp, announced,
                  got204 >>

\* A cleanup that deletes the transport entry and keeps the server entry.
SSECleanupResumedKeepsServer(o) ==
  /\ Ready
  /\ cleanupPc[o] = "closing"
  /\ sseTransports' = [sseTransports EXCEPT ![sessionId[o]] = Undefined]
  /\ cleanupPc' = [cleanupPc EXCEPT ![o] = "done"]
  /\ UNCHANGED << transports, servers, sseServers, kind, sessionId,
                  closeCalls, conn, listener, req, resp, announced, got204 >>

\* server.close() settled: delete both entries and return true.
SSECleanupResumed(o) ==
  /\ Ready
  /\ cleanupPc[o] = "closing"
  /\ sseServers' = [sseServers EXCEPT ![sessionId[o]] = Undefined]
  /\ sseTransports' = [sseTransports EXCEPT ![sessionId[o]] = Undefined]
  /\ cleanupPc' = [cleanupPc EXCEPT ![o] = "done"]
  /\ UNCHANGED << transports, servers, kind, sessionId, closeCalls, conn,
                  listener, req, resp, announced, got204 >>

handleLegacySSE ==
  \/ \E o \in Obj : LegacySSEBegin(o)
  \/ LegacySSEThrows
  \/ \E rec \in BagToSet(req) : LegacySSEStore(rec)
  \/ \E rec \in BagToSet(req) : LegacySSEThrowsLate(rec)
  \/ \E o \in Obj : StreamCloseEarly(o)
  \/ \E o \in Obj : StreamClose(o)
  \/ \E o \in Obj : SSECleanupResumed(o)

\* ------------------------------------------------ POST /messages (legacy)
\* if (!sessionId) 400.
MsgMissingId(sid, body) ==
  /\ Ready
  /\ ~Truthy(sid)
  /\ Respond("MSG", sid, body, 400, 0, 0, Phase(sid))
  /\ UNCHANGED << maps, objs, req, announced, got204 >>

\* const transport = this.sseTransports[sessionId]; if (!transport) 404.
MsgNotFound(sid, body) ==
  /\ Ready
  /\ Truthy(sid)
  /\ ~Truthy(MapGet(sseTransports, sid))
  /\ Respond("MSG", sid, body, 404, 0, 0, Phase(sid))
  /\ UNCHANGED << maps, objs, req, announced, got204 >>

\* transport.handlePostMessage is not a function: caught, 500.
MsgInherited(sid, body) ==
  /\ Ready
  /\ Truthy(sid)
  /\ MapGet(sseTransports, sid) = Inherited
  /\ Respond("MSG", sid, body, 500, 0, 0, Phase(sid))
  /\ UNCHANGED << maps, objs, req, announced, got204 >>

\* What a status says about the JSON-RPC result of the request: 202
\* Accepted is an acknowledgement, the result follows as an event on the
\* session's stream; 200 carries the result on the response itself.
ResultOn(status) ==
  IF status = 202 THEN "stream" ELSE IF status = 200 THEN "response"
  ELSE "none"

\* The message handled the way POST /mcp handles it, by a transport that
\* writes the result on the response of the POST.
MsgForwardInResponse(sid, body, status) ==
  /\ Ready
  /\ Truthy(sid)
  /\ MapGet(sseTransports, sid) \in Obj
  /\ Respond("MSG", sid, body, IF status = 202 THEN 200 ELSE status,
             MapGet(sseTransports, sid), 0, Phase(sid))
  /\ UNCHANGED << maps, objs, req, announced, got204 >>

\* `await transport.handlePostMessage(req, res, req.body)` on the
\* session's SSEServerTransport: the transport acknowledges the message
\* (202) and answers it on the stream, or throws before the response is
\* started and the catch answers 500.  Nothing follows the await, so call
\* and return are one step.
MsgForward(sid, body, status) ==
  /\ Ready
  /\ Truthy(sid)
  /\ MapGet(sseTransports, sid) \in Obj
  /\ Respond("MSG", sid, body, status, MapGet(sseTransports, sid), 0,
             Phase(sid))
  /\ UNCHANGED << maps, objs, req, announced, got204 >>

\* transport.handlePostMessage threw after it had started the response:
\* the catch finds res.headersSent true.
MsgForwardThrowsLate(sid, body) ==
  /\ Ready
  /\ Truthy(sid)
  /\ MapGet(sseTransports, sid) \in Obj
  /\ ThrownLate("MSG", sid, body, 202, MapGet(sseTransports, sid), TRUE,
                Phase(sid))
  /\ UNCHANGED << maps, objs, req, announced, got204 >>

handleLegacyMessages ==
  \E sid \in ClientSids, body \in MsgBodies :
    \/ MsgMissingId(sid, body)
    \/ MsgNotFound(sid, body)
    \/ MsgInherited(sid, body)
    \/ \E status \in {202, 500} : MsgForward(sid, body, status)
    \/ MsgForwardThrowsLate(sid, body)

\* ------------------------------------------------------------------ Next
Next ==
  \/ ResponseTaken
  \/ handlePostRequest
  \/ handleGetRequest
  \/ deleteRoutes
  \/ handleLegacySSE
  \/ handleLegacyMessages

Spec == Init /\ [][Next]_vars

\* The steps of requests that pass the wrapper's checks and that the
\* transports serve, and the steps of suspended handlers and of streams.
\* (Requests answered 400, 404 or 500, or not at all, change nothing and
\* are left to Spec.)
Accepted ==
  \/ ResponseTaken
  \/ \E sid \in ClientSids, body \in Bodies :
       \/ PostForward(sid, body)
       \/ \E o \in Obj : PostInitBegin(o, sid, body)
  \/ \E rec \in BagToSet(req) :
       \/ PostInitHandle(rec)
       \/ PostInitStore(rec)
       \/ PostForwarded(rec, 200)
       \/ \E outcome \in {"resolved", "rejected"} : DeleteResumed(rec, outcome)
       \/ LegacySSEStore(rec)
  \/ \E sid \in ClientSids :
       \/ GetForward(sid, 200)
       \/ \E route \in DeleteRoutes : DeleteBegin(route, sid)
       \/ \E body \in MsgBodies : MsgForward(sid, body, 202)
  \/ \E o \in Obj :
       \/ LegacySSEBegin(o)
       \/ StreamCloseEarly(o)
       \/ StreamClose(o)
       \/ SSECleanupResumed(o)

\* ------------------------------------------------------ getActiveSessions
\* Object.keys(this.transports).length
\*   + Object.keys(this.sseTransports).length
getActiveSessions ==
  Cardinality({i \in Ids : transports[i] # Undefined})
    + Cardinality({i \in Ids : sseTransports[i] # Undefined})

\* ------------------------------------------------- repeated session ids
\* sessionIdGenerator: () => randomUUID() hands out an id that a
\* registered modern session already has.  The rest of the handler is as
\* in PostInitHandle.
PostInitHandleRepeat(rec, id) ==
  /\ Ready /\ At(rec, "init_connect")
  /\ transports[id] \in Obj
  /\ sessionId' = [sessionId EXCEPT ![rec.obj] = id]
  /\ announced' = announced \cup {id}
  /\ Move(rec, "init_handle")
  /\ UNCHANGED << maps, kind, closeCalls, conn, listener, cleanupPc, resp,
                  got204 >>

\* new SSEServerTransport draws an id that a registered legacy session
\* already has.  The rest of the handler is as in LegacySSEBegin.
LegacySSEBeginRepeat(o, id) ==
  /\ FreeSlot /\ FreeObj(o)
  /\ sseTransports[id] \in Obj
  /\ kind' = [kind EXCEPT ![o] = "legacy"]
  /\ sessionId' = [sessionId EXCEPT ![o] = id]
  /\ conn' = [conn EXCEPT ![o] = "open"]
  /\ announced' = announced \cup {id}
  /\ Suspend(Pending("sse_connect", "SSE", o))
  /\ UNCHANGED << maps, closeCalls, listener, cleanupPc, resp, got204 >>

\* The program with an id generator that may repeat an id.
NextRepeat ==
  \/ Next
  \/ \E rec \in BagToSet(req), id \in Ids : PostInitHandleRepeat(rec, id)
  \/ \E o \in Obj, id \in Ids : LegacySSEBeginRepeat(o, id)

RepeatSpec == Init /\ [][NextRepeat]_vars

\* ------------------------------------------------- the two DELETE forms
\* app.delete(`${endpoint}/:sessionId`): cleanupSession found the session
\* and is suspended at its await, the handler remembering that it is the
\* path form (Spec leaves the form of a suspended DELETE out, the code
\* after the await being the same in both route handlers).  FormSpec
\* follows the accepted requests.
DeleteBeginPath(sid) ==
  /\ FreeSlot
  /\ CleanupFound(sid)
  /\ MapGet(transports, sid) \in Obj
  /\ MapGet(servers, sid) \in Obj
  /\ closeCalls' = [closeCalls EXCEPT ![MapGet(servers, sid)] = Called(@)]
  /\ Suspend(Pending("del_close", "DELETEP", MapGet(servers, sid)))
  /\ UNCHANGED << maps, resp, got204, kind, sessionId, conn, listener,
                  cleanupPc, announced >>

NextForms ==
  \/ Accepted
  \/ \E sid \in ClientSids : DeleteBeginPath(sid)

FormSpec == Init /\ [][NextForms]_vars

\* ------------------------------------- the request handlers of the server
\* TOOLS, PROMPTS and RESOURCES.
ToolNames == {"echo", "ping", "get_time"}
PromptNames == {"greeting", "test_prompt"}
ResourceUris == {"mcp://server/info", "mcp://server/status"}

\* A tools/call handler that answers every name.
CallToolLenient(name) == "result"

\* CallToolRequestSchema: switch (name) ... default: throw new Error(...).
CallTool(name) == IF name \in ToolNames THEN "result" ELSE "throw"

\* GetPromptRequestSchema: PROMPTS.find(...); if (!prompt) throw.
GetPrompt(name) == IF name \in PromptNames THEN "result" ELSE "throw"

\* ReadResourceRequestSchema: switch (uri) ... default: throw.
ReadResource(uri) == IF uri \in ResourceUris THEN "result" ELSE "throw"

\* server.setRequestHandler: the handler registered for the method.
RequestHandler(method, name) ==
  IF method = "tools/call" THEN CallTool(name)
  ELSE IF method = "prompts/get" THEN GetPrompt(name)
  ELSE ReadResource(name)

\* The server answers the request with the handler's result, or with a
\* JSON-RPC error when the handler threw.
Reply(outcome) == IF outcome = "throw" THEN "error" ELSE "result"

\* `const transports = {}` at module level: no code assigns to it (the
\* wrapper stores sessions in this.transports).
moduleTransports == [i \in Ids |-> Undefined]

\* Object.keys(transports).length in the ReadResourceRequestSchema handler,
\* where `transports` is the module-level object: the figure reported as
\* 'Active Sessions' by mcp://server/info and as activeSessions by
\* mcp://server/status.
resourceActiveSessions ==
  Cardinality({i \in Ids : moduleTransports[i] # Undefined})

\* The text of echo's content item: args?.message || 'Hello from MCP
\* Server!' (the empty string is falsy).
EchoText(args) ==
  IF args = << >> \/ args[1] = "" THEN "Hello from MCP Server!"
  ELSE args[1]

\* The content of the result of a tools/call: one text item for each of
\* the three tools (ping and get_time answer with the time).
ToolContent(body) ==
  IF body.method # "tools/call" \/ CallTool(body.name) = "throw" THEN << >>
  ELSE IF body.name = "echo" THEN << EchoText(body.args) >>
  ELSE << "time" >>

\* The calls the clients of the model send.
Calls ==
  { EchoCall(<< >>), EchoCall(<< "" >>), EchoCall(<< "hi" >>),
    CallBody("tools/call", "greeting"),
    CallBody("prompts/get", "greeting"), CallBody("prompts/get", "echo"),
    CallBody("resources/read", "mcp://server/info"),
    CallBody("resources/read", "mcp://server/status"),
    CallBody("resources/read", "echo") }

\* handlePostRequest forwarding a call, followed through the dispatch:
\* transport.handleRequest answers 200 and the server replies on that
\* response, or it throws before the response is started and the catch
\* answers 500.  Nothing follows the await, so call and return are one
\* step here.
PostCall(sid, body, status) ==
  /\ Ready
  /\ isInitializeRequest(body) = "false"
  /\ ~MissingSessionId(sid)
  /\ MapGet(transports, sid) \in Obj
  /\ resp' = [route |-> "POST", sid |-> sid, body |-> body,
              status |-> status, fwd |-> MapGet(transports, sid),
              stored |-> 0, arrival |-> TRUE, phase |-> Phase(sid),
              writes |-> Started(status), caught |-> status = 500,
              rpc |-> IF status = 500 THEN "none"
                      ELSE Reply(RequestHandler(body.method, body.name)),
              content |-> IF status = 500 THEN << >> ELSE ToolContent(body)]
  /\ UNCHANGED << maps, objs, req, announced, got204 >>

\* handleLegacyMessages forwarding a call: handlePostMessage acknowledges
\* it (202) and the server replies on the stream, or it throws (500).
MsgCall(sid, body, status) ==
  /\ Ready
  /\ Truthy(sid)
  /\ MapGet(sseTransports, sid) \in Obj
  /\ resp' = [route |-> "MSG", sid |-> sid, body |-> body,
              status |-> status, fwd |-> MapGet(sseTransports, sid),
              stored |-> 0, arrival |-> TRUE, phase |-> Phase(sid),
              writes |-> Started(status), caught |-> status = 500,
              rpc |-> IF status = 500 THEN "none"
                      ELSE Reply(RequestHandler(body.method, body.name)),
              content |-> IF status = 500 THEN << >> ELSE ToolContent(body)]
  /\ UNCHANGED << maps, objs, req, announced, got204 >>

NextDispatch ==
  \/ Accepted
  \/ \E sid \in ClientSids, body \in Calls :
       \/ \E status \in {200, 500} : PostCall(sid, body, status)
       \/ \E status \in {202, 500} : MsgCall(sid, body, status)

DispatchSpec == Init /\ [][NextDispatch]_vars

\* ------------------------------------------------- /health and shutdown
\* app.get('/health'): res.json({..., activeSessions: getActiveSessions()}).
Health ==
  /\ Ready
  /\ Respond("HEALTH", NoId, UndefBody, 200, 0, 0, "unknown")
  /\ UNCHANGED << maps, objs, req, announced, got204 >>

\* Object.entries(map): the servers a for-of loop of shutdown iterates,
\* taken when the loop starts.
Entries(map) == {map[i] : i \in Ids} \ {Undefined}

ShuttingDown == \E rec \in BagToSet(req) : rec.route = "SHUTDOWN"

\* shutdown at a point of its loops: loop is the loop it is in, rest the
\* entries of that loop not yet visited, start the servers registered when
\* shutdown began, calls how many times shutdown has called close() on
\* each server, failed whether one of these calls has rejected.  With an
\* entry left, close() is called on it and shutdown suspends at the
\* await; the first loop exhausted, the second starts on the entries
\* sseServers has then; both exhausted, shutdown returns and the SIGINT
\* handler calls process.exit(0).  others are the other suspended handlers.
ShutdownContinue(others, loop, rest, start, calls, failed) ==
  LET l2 == IF loop = "modern" /\ rest = {} THEN "legacy" ELSE loop
      r2 == IF loop = "modern" /\ rest = {} THEN Entries(sseServers) ELSE rest
  IN IF r2 = {}
     THEN /\ req' = others (+) SetToBag({[pc |-> "exited", route |-> "SHUTDOWN",
                                          obj |-> 0, loop |-> l2, rest |-> {},
                                          start |-> start, calls |-> calls,
                                          failed |-> failed]})
          /\ resp' = [NoResp EXCEPT !.route = "EXIT"]
          /\ UNCHANGED closeCalls
     ELSE \E o \in r2 :
            /\ closeCalls' = [closeCalls EXCEPT ![o] = Called(@)]
            /\ req' = others (+) SetToBag({[pc |-> "shut_close",
                                            route |-> "SHUTDOWN", obj |-> o,
                                            loop |-> l2, rest |-> r2 \ {o},
                                            start |-> start,
                                            calls |-> [calls EXCEPT ![o] = @ + 1],
                                            failed |-> failed]})
            /\ UNCHANGED resp

\* process.on('SIGINT'): await mcpServer.shutdown().  (One signal: a
\* second SIGINT while shutdown runs is left out.  The signal handler is
\* one of the MaxReq suspended handlers.)
ShutdownBegin ==
  /\ FreeSlot /\ ~ShuttingDown
  /\ ShutdownContinue(req, "modern", Entries(servers),
                      Entries(servers) \cup Entries(sseServers),
                      [o \in Obj |-> 0], FALSE)
  /\ UNCHANGED << maps, kind, sessionId, conn, listener, cleanupPc,
                  announced, got204 >>

\* A shutdown that forgets the session whose server it has closed.
ShutdownResumedForgetting(rec, outcome) ==
  /\ Ready /\ At(rec, "shut_close")
  /\ ShutdownContinue(req (-) SetToBag({rec}), rec.loop, rec.rest, rec.start,
                      rec.calls, rec.failed \/ outcome = "rejected")
  /\ servers' = [i \in Ids |-> IF servers[i] = rec.obj THEN Undefined
                               ELSE servers[i]]
  /\ transports' = [i \in Ids |-> IF transports[i] = rec.obj THEN Undefined
                                  ELSE transports[i]]
  /\ UNCHANGED << sseTransports, sseServers, kind, sessionId, conn, listener,
                  cleanupPc, announced, got204 >>

\* `await server.close().catch(log)` in a loop of shutdown settled: the
\* loop goes on.  (A rejected await would reject shutdown and the signal
\* handler: process.exit is not reached.)
ShutdownResumed(rec, outcome) ==
  /\ Ready /\ At(rec, "shut_close")
  /\ IF CloseCaught(outcome) = "resolved"
     THEN ShutdownContinue(req (-) SetToBag({rec}), rec.loop, rec.rest,
                           rec.start, rec.calls,
                           rec.failed \/ outcome = "rejected")
     ELSE /\ req' = (req (-) SetToBag({rec})) (+)
                      SetToBag({[rec EXCEPT !.pc = "rejected",
                                            !.failed = TRUE]})
          /\ UNCHANGED << resp, closeCalls >>
  /\ UNCHANGED << maps, kind, sessionId, conn, listener, cleanupPc,
                  announced, got204 >>

NextShutdown ==
  \/ Accepted
  \/ Health
  \/ ShutdownBegin
  \/ \E rec \in BagToSet(req), outcome \in {"resolved", "rejected"} :
       ShutdownResumed(rec, outcome)

ShutdownSpec == Init /\ [][NextShutdown]_vars

\* ================================================================ claims
\* The id is an own key of the modern store.
Registered(sid) == sid \in Ids /\ transports[sid] # Undefined

\* The id is one a modern initialize produced.
ModernId(sid) == \E o \in Obj : kind[o] = "modern" /\ sessionId[o] = sid

\* C1: a POST /mcp whose payload isInitializeRequest classifies as
\* initialize and that carries an Mcp-Session-Id header is answered 400 in
\* a step that leaves all four session maps unchanged, whether or not the
\* id names a registered session.
C1_InitializeWithSessionIdIs400 ==
  [][ ( /\ resp'.route = "POST"
        /\ isInitializeRequest(resp'.body) = "true"
        /\ resp'.sid # NoId )
      => ( /\ resp'.status = 400
           /\ resp'.fwd = 0 /\ resp'.stored = 0
           /\ UNCHANGED maps ) ]_vars

\* C1 witness: a batch containing an initialize, carrying the id of a
\* registered session, has been answered 400.
C1_Witness ==
  /\ resp.route = "POST" /\ resp.arrival
  /\ resp.body = ArrBody(<<"tools/call", "initialize">>)
  /\ Registered(resp.sid)
  /\ resp.status = 400

\* C2: a POST /mcp whose payload is not classified as initialize and that
\* carries no Mcp-Session-Id header is answered 400 and is handed to no
\* transport.
C2_NonInitializeWithoutIdIs400 ==
  ( /\ resp.route = "POST" /\ resp.arrival
    /\ isInitializeRequest(resp.body) # "true"
    /\ resp.sid = NoId )
  => ( resp.status = 400 /\ resp.fwd = 0 )

\* C3: a non-initialize POST /mcp carrying a session id that is not
\* registered in the modern store when it is looked up is answered 404 and
\* is handed to no transport.
C3_UnregisteredIdIs404 ==
  ( /\ resp.route = "POST" /\ resp.arrival
    /\ isInitializeRequest(resp.body) = "false"
    /\ resp.sid # NoId
    /\ ~Registered(resp.sid) )
  => ( resp.status = 404 /\ resp.fwd = 0 )

\* C4: the session of an initialize is registered before the initialize
\* exchange is executed and its id written to the client (a transport
\* that has its id is registered unless its termination has begun); so a
\* POST /mcp carrying an id the client has received, whose termination
\* has not begun, is not answered 404.
C4_RegisteredBeforeAnnounced ==
  /\ \A o \in Obj :
       (kind[o] = "modern" /\ Truthy(sessionId[o]))
         => (transports[sessionId[o]] = o \/ closeCalls[o] > 0)
  /\ ( /\ resp.route = "POST" /\ resp.arrival
       /\ ModernId(resp.sid)
       /\ resp.phase = "known" )
     => resp.status # 404

\* C5: whatever termination triggers fire for a session, and however they
\* interleave, server.close() is invoked at most once on its handler.
C5_ClosedAtMostOnce == \A o \in Obj : closeCalls[o] <= 1

\* C6: once termination of a session has begun, no POST /mcp and no
\* GET /mcp carrying its id is handed to its transport.
C6_NothingServedOnceTerminating ==
  ( /\ resp.route \in {"POST", "GET"} /\ resp.arrival
    /\ resp.phase \in {"closing", "deleted"} )
  => resp.fwd = 0

\* C7: after a DELETE for a registered modern session S has been answered
\* 204, every later POST /mcp carrying S (here: every one whose payload is
\* not an initialize) is answered 404.
C7_PostAfterDeleteIs404 ==
  ( /\ resp.route = "POST" /\ resp.arrival
    /\ resp.phase = "deleted"
    /\ isInitializeRequest(resp.body) # "true" )
  => resp.status = 404

\* C8: among all cleanup calls for one id at most one returns true: a
\* DELETE is answered 204 only for an id that is still registered and for
\* which no DELETE has been answered 204 before.
C8_AtMostOne204 ==
  [][ (resp'.route \in DeleteRoutes /\ resp'.status = 204)
      => (Registered(resp'.sid) /\ resp'.sid \notin got204) ]_vars

\* C9: a DELETE, in header or path form, for an id that is not registered
\* in the modern store is answered 404, and no session map changes.
C9_DeleteUnregisteredIs404 ==
  [][ ( /\ resp'.route \in DeleteRoutes /\ resp'.arrival
        /\ resp'.sid # NoId
        /\ ~Registered(resp'.sid) )
      => (resp'.status = 404 /\ UNCHANGED maps) ]_vars

\* C10: two requests addressed to the same session never have their
\* invocations of its transport in progress at the same time.
C10_OneInvocationAtATime ==
  \A o \in Obj :
    CopiesIn(Pending("post_fwd", "POST", o), req) <= 1

\* The id is an own key of the legacy store.
LegacyRegistered(sid) == sid \in Ids /\ sseTransports[sid] # Undefined

\* The id is one a GET /sse produced, and the stream of that session is
\* open / has closed.
StreamOpen(sid) ==
  \E o \in Obj : kind[o] = "legacy" /\ sessionId[o] = sid /\ conn[o] = "open"
StreamClosed(sid) ==
  \E o \in Obj :
    kind[o] = "legacy" /\ sessionId[o] = sid /\ conn[o] = "closed"

\* C11: a legacy session is in the legacy store by the time the endpoint
\* event carrying its id is on the stream; so a POST /messages carrying an
\* id the client has received, whose stream is open, is not answered 404.
C11_LegacyRegisteredBeforeEndpoint ==
  /\ \A o \in Obj :
       (kind[o] = "legacy" /\ sessionId[o] \in announced
          /\ conn[o] = "open")
         => sseTransports[sessionId[o]] = o
  /\ ( /\ resp.route = "MSG" /\ resp.arrival
       /\ resp.sid \in announced
       /\ StreamOpen(resp.sid) )
     => resp.status # 404

\* C12: a legacy session whose stream has closed is eventually removed
\* from the legacy store.  As a final result: once the stream of a legacy
\* session has closed and nothing of the session is still in progress
\* (handleLegacySSE is not suspended and no cleanup is awaiting close()),
\* the session is not in the legacy store.
C12_ClosedStreamIsRemoved ==
  \A o \in Obj :
    ( /\ kind[o] = "legacy" /\ conn[o] = "closed"
      /\ ~BagIn(Pending("sse_connect", "SSE", o), req)
      /\ cleanupPc[o] # "closing" )
    => sseTransports[sessionId[o]] # o

\* C13: a POST /messages carrying the id of a legacy session whose stream
\* has closed is answered 404 and is handed to no transport.
C13_MessageAfterCloseIs404 ==
  ( /\ resp.route = "MSG" /\ resp.arrival
    /\ StreamClosed(resp.sid) )
  => ( resp.status = 404 /\ resp.fwd = 0 )

C16_GetChecksLikePost ==
  ( resp.route = "GET" /\ resp.arrival )
  => ( /\ resp.sid = NoId => resp.status = 400
       /\ (resp.sid # NoId /\ ~Registered(resp.sid)) => resp.status = 404 )

\* C17: a POST /messages without the sessionId parameter is answered 400,
\* one carrying an id that is not registered in the legacy store is
\* answered 404, and neither is handed to a transport.
C17_MessagesChecks ==
  ( resp.route = "MSG" /\ resp.arrival )
  => ( /\ resp.sid = NoId => (resp.status = 400 /\ resp.fwd = 0)
       /\ (resp.sid # NoId /\ ~LegacyRegistered(resp.sid))
            => (resp.status = 404 /\ resp.fwd = 0) )

\* C19: a session id that is registered is never rebound: while an id
\* stays in a store, the transport and the server stored under it stay the
\* same, also when a new session is given an id that is already registered
\* (its registration fails).
C19_NeverRebound ==
  [][ \A i \in Ids :
        /\ (transports[i] # Undefined /\ transports'[i] # Undefined)
             => transports'[i] = transports[i]
        /\ (servers[i] # Undefined /\ servers'[i] # Undefined)
             => servers'[i] = servers[i]
        /\ (sseTransports[i] # Undefined /\ sseTransports'[i] # Undefined)
             => sseTransports'[i] = sseTransports[i]
        /\ (sseServers[i] # Undefined /\ sseServers'[i] # Undefined)
             => sseServers'[i] = sseServers[i] ]_vars

\* The id is registered in one store only.
LegacyOnly(sid) == LegacyRegistered(sid) /\ ~Registered(sid)
ModernOnly(sid) == Registered(sid) /\ ~LegacyRegistered(sid)

\* C20: the two stores are separate namespaces: a POST /mcp, GET /mcp or
\* DELETE carrying an id registered only as a legacy session is handed to
\* no transport and answered 400 or 404, and a POST /messages carrying an
\* id registered only as a modern session is answered 404.
C20_SeparateNamespaces ==
  /\ ( /\ resp.route \in {"POST", "GET"} \cup DeleteRoutes
       /\ resp.arrival
       /\ LegacyOnly(resp.sid) )
     => ( resp.fwd = 0 /\ resp.status \in {400, 404} )
  /\ ( /\ resp.route = "MSG" /\ resp.arrival
       /\ ModernOnly(resp.sid) )
     => ( resp.fwd = 0 /\ resp.status = 404 )

\* C21: channel isolation.  Every entry of a store holds the transport
\* whose own session id is the key, of the kind of that store; and a POST
\* /mcp, GET /mcp or POST /messages carrying an id is handed to no
\* transport but the one that has this id.
C21_ChannelIsolation ==
  /\ \A i \in Ids :
       /\ transports[i] # Undefined
            => (sessionId[transports[i]] = i /\ kind[transports[i]] = "modern")
       /\ sseTransports[i] # Undefined
            => ( /\ sessionId[sseTransports[i]] = i
                 /\ kind[sseTransports[i]] = "legacy" )
  /\ ( /\ resp.route \in {"POST", "GET", "MSG"}
       /\ resp.sid # NoId /\ resp.fwd # 0 )
     => sessionId[resp.fwd] = resp.sid

\* C21 witness: with a modern and a legacy session registered side by
\* side, a request carrying the id of one of them has been handed to its
\* transport.
C21_Witness ==
  /\ \E i, j \in Ids : transports[i] # Undefined /\ sseTransports[j] # Undefined
  /\ resp.route \in {"POST", "MSG"} /\ resp.arrival
  /\ resp.sid # NoId /\ resp.fwd # 0

\* Sessions that have been stored and whose termination has not begun.
LiveSessions ==
  { o \in Obj :
      /\ closeCalls[o] = 0
      /\ \/ kind[o] = "modern" /\ Truthy(sessionId[o])
              /\ transports[sessionId[o]] = o
         \/ kind[o] = "legacy" /\ Truthy(sessionId[o])
              /\ sseTransports[sessionId[o]] = o }

\* C22: in every reachable state, a cleanup in progress included,
\* getActiveSessions() is the number of sessions created whose termination
\* has not begun.
C22_CountIsLiveSessions == getActiveSessions = Cardinality(LiveSessions)

\* The answer to an initialize POST or a GET /sse that failed before its
\* session was stored: server.connect or transport.handleRequest threw
\* (500), or the transport ended without a session id.
InitFailed(r) ==
  \/ /\ r.route = "POST" /\ ~r.arrival
     /\ isInitializeRequest(r.body) = "true"
     /\ r.stored = 0
  \/ r.route = "SSE" /\ r.status = 500

\* C23: the step in which an initialize POST or a GET /sse fails before
\* its session is stored changes none of the four maps, and no map holds
\* an entry for a transport that was given up.
C23_FailureLeavesNoTrace ==
  [][ /\ InitFailed(resp') => UNCHANGED maps
      /\ \A i \in Ids :
           /\ transports'[i] \in Obj => kind'[transports'[i]] = "modern"
           /\ servers'[i] \in Obj => kind'[servers'[i]] = "modern"
           /\ sseTransports'[i] \in Obj
                => kind'[sseTransports'[i]] = "legacy"
           /\ sseServers'[i] \in Obj => kind'[sseServers'[i]] = "legacy"
    ]_vars

\* C23 witness: with a session registered, an initialize POST has failed
\* because its transport ended without a session id.
C23_Witness ==
  /\ InitFailed(resp) /\ resp.route = "POST" /\ resp.status = 400
  /\ \E i \in Ids : transports[i] # Undefined

\* C24: the response of a request is started at most once, whatever path
\* the handler takes: an early error answer, the transport's answer, or
\* the catch, which writes its 500 only if no response has been started.
C24_ResponseStartedAtMostOnce == resp.writes <= 1

\* C24 witness: the catch of a handler has run for a request whose
\* response the transport had already started, and has written nothing.
C24_Witness ==
  /\ resp.route \in {"POST", "MSG", "SSE"}
  /\ resp.caught /\ resp.status # 500
  /\ resp.writes = 1

\* C25: on every route (POST /mcp, GET /mcp, both DELETE forms, GET /sse,
\* POST /messages) an exception raised before any response byte is written
\* is caught and answered 500: no request is left without a response.
C25_EveryThrowAnswered500 ==
  resp.route # "none" => resp.status # NoStatus

\* C26: when server.close() rejects during a DELETE of a registered
\* session the failure is only logged: the id is removed from both maps
\* and the DELETE is answered 204.
C26_CloseFailureStillTerminates ==
  (resp.route = "DELETE" /\ ~resp.arrival /\ resp.fwd # 0) =>
    /\ resp.status = 204
    /\ transports[resp.sid] = Undefined
    /\ servers[resp.sid] = Undefined

C26_Witness ==
  /\ resp.route = "DELETE" /\ ~resp.arrival /\ resp.caught
  /\ resp.status = 204
  /\ got204 = {resp.sid}
  /\ closeCalls[resp.fwd] = 1

\* C27: every request the wrapper answers 400 or 404, on any route, leaves
\* the session maps of both namespaces unchanged and is answered in the
\* segment that received it, before any transport or handler is created,
\* invoked or closed for it.
C27_TransportErrorsHaveNoEffect ==
  [][ (resp'.route # "none" /\ resp'.arrival /\ resp'.status \in {400, 404})
        => (UNCHANGED << maps, objs, req >> /\ resp'.fwd = 0) ]_vars

C27_Witness ==
  /\ resp.arrival /\ resp.status \in {400, 404}
  /\ resp.route = "POST" /\ isInitializeRequest(resp.body) = "true"
  /\ resp.sid \in Ids /\ transports[resp.sid] # Undefined

\* C28: isInitializeRequest returns true exactly on the initialize
\* payloads and false on every other payload (no body, empty batch, batch
\* with null or non-object elements), without throwing.
C28_ClassifierIsTotal ==
  (resp.route = "POST" /\ resp.arrival) =>
    isInitializeRequest(resp.body) =
      (IF \/ resp.body.t = "obj" /\ resp.body.method = "initialize"
          \/ /\ resp.body.t = "arr"
             /\ \E k \in DOMAIN resp.body.elems :
                  resp.body.elems[k] = "initialize"
       THEN "true" ELSE "false")

\* C29: a DELETE of a registered modern session has the same effect in the
\* header form and in the path form: when it is answered 204, close() has
\* been called on the session's handler and the id is in neither the
\* transport map nor the server map.
C29_DeleteFormsAgree ==
  (resp.route \in DeleteRoutes /\ resp.status = 204) =>
    /\ resp.fwd \in Obj /\ closeCalls[resp.fwd] >= 1
    /\ kind[resp.fwd] = "modern"
    /\ transports[resp.sid] = Undefined
    /\ servers[resp.sid] = Undefined

C29_Witness ==
  /\ resp.route = "DELETEP" /\ resp.status = 204 /\ ~resp.arrival
  /\ closeCalls[resp.fwd] = 1
  /\ \E i \in Ids : i # resp.sid /\ i \in got204

\* The request names a tool, prompt or resource the server does not have.
UnknownName(body) ==
  \/ body.method = "tools/call" /\ body.name \notin ToolNames
  \/ body.method = "prompts/get" /\ body.name \notin PromptNames
  \/ body.method = "resources/read" /\ body.name \notin ResourceUris

\* C30: a tools/call, prompts/get or resources/read on a registered
\* session that names an unknown tool, prompt or resource is not answered
\* 400 or 404; when the transport answers it the reply is a JSON-RPC
\* error; the step leaves every session map unchanged, so the session
\* stays registered; and a request on a registered session is always
\* handed to the session's transport.
C30_UnknownNameIsRpcError ==
  [][ /\ (resp'.body \in Calls /\ UnknownName(resp'.body)) =>
           /\ resp'.status \notin {400, 404}
           /\ resp'.status \in {200, 202} => resp'.rpc = "error"
           /\ UNCHANGED maps
           /\ resp'.fwd = (IF resp'.route = "POST"
                           THEN transports'[resp'.sid]
                           ELSE sseTransports'[resp'.sid])
      /\ ( /\ resp'.route = "POST" /\ resp'.arrival
           /\ isInitializeRequest(resp'.body) = "false"
           /\ resp'.sid \in Ids /\ transports[resp'.sid] \in Obj ) =>
           /\ resp'.status \notin {400, 404}
           /\ resp'.fwd = transports[resp'.sid] ]_vars

C30_Witness ==
  /\ resp.body = CallBody("tools/call", "greeting")
  /\ resp.status = 200 /\ resp.rpc = "error"
  /\ transports[resp.sid] = resp.fwd
  /\ \E i \in Ids : i # resp.sid /\ sseTransports[i] # Undefined

\* C31: tools/call echo returns a single text content item whose text is
\* the message provided in arguments.message, for every string, the empty
\* string included.
C31_EchoReturnsMessage ==
  ( /\ resp.body.method = "tools/call" /\ resp.body.name = "echo"
    /\ resp.body.args # << >> /\ resp.rpc = "result" ) =>
    resp.content = resp.body.args

\* C32: in every state between handler steps the transport map and the
\* server map of each namespace have the same keys, and the server stored
\* under an id is the one connected to the transport stored under it (a
\* transport and the server connected to it are one object of the model).
C32_MapsPaired ==
  \A i \in Ids :
    /\ transports[i] = servers[i]
    /\ sseTransports[i] = sseServers[i]

C32_Witness ==
  /\ \E rec \in BagToSet(req) :
       rec.pc = "del_close" /\ transports[sessionId[rec.obj]] = rec.obj
  /\ \E o \in Obj :
       cleanupPc[o] = "closing" /\ sseTransports[sessionId[o]] = o

\* C34: the activeSessions value of mcp://server/status and the 'Active
\* Sessions' figure of mcp://server/info equal the number of modern
\* sessions registered in the MCPServerWrapper at the time of the read.
C34_ResourceCountsModernSessions ==
  ( /\ resp.body.method = "resources/read"
    /\ resp.body.name \in ResourceUris
    /\ resp.rpc = "result" ) =>
    resourceActiveSessions = Cardinality({i \in Ids : transports[i] # Undefined})

\* C33: the session maps change only through four paths.  A modern entry
\* is added only by an initialize POST without session header and removed
\* only by a DELETE answered 204; a legacy entry is added only by GET /sse
\* and removed only by the cleanup that its stream's close event started.
\* Forwarded POSTs, GET /mcp, POST /messages, /health and the steps of
\* shutdown leave every map unchanged.
C33_MapsChangeOnlyThroughFourPaths ==
  [][ /\ \A i \in Ids :
           /\ (transports'[i] # transports[i] \/ servers'[i] # servers[i]) =>
                IF transports'[i] \in Obj
                THEN /\ resp'.route = "POST" /\ resp'.stored = i
                     /\ resp'.sid = NoId
                     /\ isInitializeRequest(resp'.body) = "true"
                ELSE /\ resp'.route \in DeleteRoutes /\ resp'.status = 204
                     /\ resp'.sid = i
           /\ (sseTransports'[i] # sseTransports[i]
                 \/ sseServers'[i] # sseServers[i]) =>
                IF sseTransports'[i] \in Obj
                THEN resp'.route = "SSE" /\ resp'.stored = i
                ELSE \E o \in Obj :
                       /\ sessionId[o] = i /\ conn[o] = "closed"
                       /\ cleanupPc[o] = "closing" /\ cleanupPc'[o] = "done"
      /\ ( \/ resp' # resp /\ resp'.route \in {"GET", "MSG", "HEALTH", "EXIT"}
           \/ resp' # resp /\ resp'.route = "POST" /\ resp'.fwd # 0
                /\ resp'.stored = 0
           \/ \E rec \in BagToSet(req') :
                rec.route = "SHUTDOWN" /\ ~BagIn(rec, req) )
           => UNCHANGED maps ]_vars

C33_Witness ==
  /\ \E rec \in BagToSet(req) :
       /\ rec.pc = "shut_close" /\ rec.loop = "legacy"
       /\ \E o \in rec.start : rec.calls[o] = 1 /\ transports[sessionId[o]] = o
       /\ sseTransports[sessionId[rec.obj]] = rec.obj
  /\ resp.route = "HEALTH"

====
